---- MODULE Spec2Model ----
(***************************************************************************)
(* Model of scripts/convert_m4a_to_mp3.py: the tool locator (find_ffmpeg), *)
(* the conversion unit (convert_file), the run orchestrator (main) and the *)
(* two report writers (write_json_report, write_csv_report).               *)
(*                                                                         *)
(* A path under the input root is a file index 1..MaxFiles; the index      *)
(* order is the lexicographic order of the paths.  Text (stderr, the error *)
(* field) is a sequence of tokens; the token "ws" is whitespace.           *)
(***************************************************************************)
EXTENDS Integers, Sequences, FiniteSets, TLC

\* ---------------------------------------------------------------- bounds
MaxFiles == 2
MaxRuns == 2

Files == 1..MaxFiles
Procs == {1, 2}
\* Spec runs the invocations one after the other: a single operator process.
SeqProcs == {1}

VARIABLES
    inputDir,    \* kind of the --input-dir path: "absent", "file" or "dir"
    m4a,         \* the *.m4a files that exist under the input root
    target,      \* target[f]: content of the .mp3 next to source f
    toolEnv,     \* FFMPEG_BINARY, the search path and the fallback locations
    history,     \* the --report-json file
    snapshot,    \* the --report-csv file
    now,         \* the clock datetime.now() reads
    pc,          \* pc[p]: position of invocation p in main()
    ffmpeg_bin,  \* main's ffmpeg_bin
    sources,     \* main's sources
    results,     \* main's results
    run_payload, \* main's run_payload
    existing,    \* write_json_report's existing, after line 112
    exitcode,    \* exit status of the process (SystemExit(main()))
    raised,      \* the exception that left main(), "" if none
    printed,     \* the last message main() printed
    calls,       \* calls[p][f]: subprocess.run calls for source f in this run
    atStart,     \* the report files as invocation p found them
    runLog,      \* the run_payload of every run that wrote the history
    started,     \* number of invocations started
    quietRuns,   \* consecutive finished runs with no operator change (0..2)
    located,     \* result of the locator's last stand-alone lookup
    child,       \* child[p]: what the last subprocess.run call of run p did
    began,       \* began[p]: the clock at the run's first subprocess.run call
    lookups,     \* lookups[p]: find_ffmpeg() calls of run p
    raced,       \* a run read the history while another held an unwritten copy
    snapOf       \* timestamp_utc of the run that wrote the snapshot, 0 if none

vars == <<inputDir, m4a, target, toolEnv, history, snapshot, now, pc, ffmpeg_bin,
          sources, results, run_payload, existing, exitcode, raised, printed,
          calls, atStart, runLog, started, quietRuns, located, child, began,
          lookups, raced, snapOf>>

envVars == <<inputDir, m4a, target, toolEnv, history, snapshot, now>>
procVars == <<pc, ffmpeg_bin, sources, results, run_payload, existing,
              exitcode, raised, printed, calls, atStart>>
ghostVars == <<runLog, started, quietRuns>>
probeVars == <<child, began, lookups, raced, snapOf>>

\* ------------------------------------------------------------ tool locator
OverrideKinds == {"unset", "empty", "absent", "file", "dir"}
Fallbacks == <<"/opt/homebrew/bin/ffmpeg", "/usr/local/bin/ffmpeg">>

ToolEnvs == [override : OverrideKinds, which : BOOLEAN,
             fallback : [1..Len(Fallbacks) -> BOOLEAN]]

\* Path(env_ffmpeg).exists(): true of a file and of a directory
PathExists(kind) == kind \in {"file", "dir"}

\* `env_ffmpeg and ...`: unset (None) and "" are falsy
Truthy(kind) == kind \notin {"unset", "empty"}

FirstFallback(env) ==
    IF \E i \in 1..Len(Fallbacks) : env.fallback[i]
    THEN Fallbacks[CHOOSE i \in 1..Len(Fallbacks) :
                      /\ env.fallback[i]
                      /\ \A j \in 1..(i - 1) : ~env.fallback[j]]
    ELSE "None"

find_ffmpeg(env) ==
    IF Truthy(env.override) /\ PathExists(env.override) THEN "FFMPEG_BINARY"
    ELSE IF env.which THEN "which:ffmpeg"
    ELSE FirstFallback(env)

\* ensure_ffmpeg(): None when a tool is found, else the message
ensure_ffmpeg(env) ==
    IF find_ffmpeg(env) # "None" THEN "None" ELSE "ffmpeg not found"

\* --------------------------------------------------------- conversion unit
ConversionResult(src, dst, st, err) ==
    [source |-> src, target |-> dst, status |-> st, error |-> err]

\* src.with_suffix(".mp3"): the target next to source f carries f's index
with_suffix(f) == f

\* what the child process can do once started: exit code, captured stderr and
\* whether it leaves an output file behind (exit 0 always does)
ExitOutcomes ==
    { [code |-> 0, stderr |-> <<>>, wrote |-> TRUE],
      [code |-> 1, stderr |-> <<"ws", "unsupported", "ws", "codec", "ws">>,
       wrote |-> FALSE],
      [code |-> 1, stderr |-> <<"ws">>, wrote |-> TRUE] }

\* str(exc) when subprocess.run cannot start the child
StartErrors == { <<"No such file or directory">> }

RECURSIVE LStrip(_)
LStrip(s) == IF s # <<>> /\ Head(s) = "ws" THEN LStrip(Tail(s)) ELSE s

RECURSIVE RStrip(_)
RStrip(s) ==
    IF s # <<>> /\ s[Len(s)] = "ws" THEN RStrip(SubSeq(s, 1, Len(s) - 1)) ELSE s

\* str.strip()
Strip(s) == RStrip(LStrip(s))

SkipCheckDropped(content) == FALSE

\* dst.exists() on the content of the target
TargetExists(content) == content # "absent"

ClassifyRawStderr(src, dst, o) ==
    IF o.code = 0
    THEN ConversionResult(src, dst, "converted", <<>>)
    ELSE LET err == IF o.stderr # <<>>
                    THEN o.stderr
                    ELSE <<"ffmpeg exited with code", ToString(o.code)>>
         IN  ConversionResult(src, dst, "failed", err)

\* lines 75-88: the outcome of a child process that ran to its exit
Classify(src, dst, o) ==
    IF o.code = 0
    THEN ConversionResult(src, dst, "converted", <<>>)
    ELSE LET err == IF Strip(o.stderr) # <<>>
                    THEN Strip(o.stderr)
                    ELSE <<"ffmpeg exited with code", ToString(o.code)>>
         IN  ConversionResult(src, dst, "failed", err)

\* the output file the child leaves at the target (ffmpeg -y ... dst)
WrittenKeepsOld(old, o) == old

Written(old, o) ==
    IF o.code = 0 THEN "mp3" ELSE IF o.wrote THEN "partial" ELSE old

\* ------------------------------------------------------------ report writer
JsonDoc(type, hasRuns, runsIsList, runs, other) ==
    [type |-> type, hasRuns |-> hasRuns, runsIsList |-> runsIsList,
     runs |-> runs, other |-> other]

EmptyHistory == JsonDoc("object", TRUE, TRUE, <<>>, FALSE)   \* {"runs": []}
NoDoc == JsonDoc("none", FALSE, FALSE, <<>>, FALSE)
ArrayDoc == JsonDoc("array", FALSE, FALSE, <<>>, FALSE)      \* []
NoRunsDoc == JsonDoc("object", FALSE, FALSE, <<>>, TRUE)     \* {"note": "x"}
NullRunsDoc == JsonDoc("object", TRUE, FALSE, <<>>, FALSE)   \* {"runs": null}

AbsentFile == [kind |-> "absent", doc |-> NoDoc]
BytesFile == [kind |-> "bytes", doc |-> NoDoc]       \* not UTF-8
GarbageFile == [kind |-> "garbage", doc |-> NoDoc]   \* UTF-8 text, not JSON

\* json.dumps(doc) written as the file's text
json_dumps(doc) == [kind |-> "json", doc |-> doc]

\* lines 104-110: report_path.exists(), read_text, json.loads
LoadHistory(file) ==
    CASE file.kind = "absent"  -> [exc |-> "", doc |-> EmptyHistory]
      [] file.kind = "bytes"   -> [exc |-> "UnicodeDecodeError", doc |-> NoDoc]
      [] file.kind = "garbage" -> [exc |-> "", doc |-> EmptyHistory]
      [] file.kind = "json"    -> [exc |-> "", doc |-> file.doc]

\* line 112: existing.setdefault("runs", []).append(run_payload)
AppendRunOverwrite(doc, payload) ==
    IF doc.type # "object" \/ (doc.hasRuns /\ ~doc.runsIsList)
    THEN [exc |-> "AttributeError", doc |-> NoDoc]
    ELSE [exc |-> "", doc |-> JsonDoc("object", TRUE, TRUE, <<payload>>, doc.other)]

AppendRun(doc, payload) ==
    IF doc.type # "object" \/ (doc.hasRuns /\ ~doc.runsIsList)
    THEN [exc |-> "AttributeError", doc |-> NoDoc]
    ELSE [exc |-> "",
          doc |-> JsonDoc("object", TRUE, TRUE,
                          IF doc.hasRuns THEN Append(doc.runs, payload)
                          ELSE <<payload>>,
                          doc.other)]

CsvHeader == <<"source", "target", "status", "error">>
NoSnapshot == [exists |-> FALSE, header |-> <<>>, rows |-> <<>>]

CsvRow(r) ==
    [source |-> r.source, target |-> r.target, status |-> r.status,
     error |-> r.error]

CsvAppend(old, res) ==
    [exists |-> TRUE, header |-> CsvHeader,
     rows |-> old.rows \o [i \in 1..Len(res) |-> CsvRow(res[i])]]

\* lines 118-129: open "w" truncates, writeheader, one writerow per result
write_csv_report(old, res) ==
    [exists |-> TRUE, header |-> CsvHeader,
     rows |-> [i \in 1..Len(res) |-> CsvRow(res[i])]]

\* --------------------------------------------------------- run orchestrator
InputDirArg == "data/train"

InputDirExists(kind) == kind # "absent"

\* line 157: input_dir.exists() and input_dir.is_dir()
InputDirOk(kind) == kind # "absent" /\ kind = "dir"

RECURSIVE sorted(_), RglobOrder(_)
RglobOrder(S) ==
    IF S = {} THEN <<>>
    ELSE LET hi == CHOOSE x \in S : \A y \in S : y <= x
         IN  <<hi>> \o RglobOrder(S \ {hi})

sorted(S) ==
    IF S = {} THEN <<>>
    ELSE LET lo == CHOOSE x \in S : \A y \in S : x <= y
         IN  <<lo>> \o sorted(S \ {lo})

CountStatus(res, st) == Cardinality({i \in 1..Len(res) : res[i].status = st})

\* lines 178-190
TotalsErrorAsSkipped(res) ==
    [found_m4a |-> Len(res),
     converted |-> CountStatus(res, "converted"),
     skipped |-> Cardinality({i \in 1..Len(res) : res[i].error # <<>>}),
     failed |-> CountStatus(res, "failed")]

Totals(res) ==
    [found_m4a |-> Len(res),
     converted |-> CountStatus(res, "converted"),
     skipped |-> CountStatus(res, "skipped"),
     failed |-> CountStatus(res, "failed")]

\* lines 182-200
RunPayload(ts, res) ==
    [timestamp_utc |-> ts, input_dir |-> InputDirArg, totals |-> Totals(res),
     results |-> [i \in 1..Len(res) |-> CsvRow(res[i])]]

NoPayload == RunPayload(0, <<>>)

\* line 213
ExitStatus(failed) == IF failed = 0 THEN 0 ELSE 2

LoopStopsAtFailure(srcs, res) ==
    \/ Len(res) = Len(srcs)
    \/ res # <<>> /\ res[Len(res)].status = "failed"

\* the for loop of lines 173-176 has consumed every source
LoopDone(srcs, res) == Len(res) = Len(srcs)

\* ------------------------------------------------------------------- state
NoStart == [history |-> AbsentFile, snapshot |-> NoSnapshot]

\* a history file that is there before the first run and was not written by
\* this program
ForeignHistories ==
    { BytesFile, GarbageFile, json_dumps(ArrayDoc), json_dumps(NoRunsDoc),
      json_dumps(NullRunsDoc) }

\* The runs' specification keeps FFMPEG_BINARY unset and the fallback
\* locations empty: the tool is on the search path or nowhere.
PathOnlyEnv(hit) ==
    [override |-> "unset", which |-> hit, fallback |-> [i \in 1..Len(Fallbacks) |-> FALSE]]

\* no subprocess.run call, a call that raised, a child that exited
NoChild == [kind |-> "none", code |-> 0, text |-> <<>>]
ChildWriting == [kind |-> "writing", code |-> 0, text |-> <<>>]
ChildRaised(e) == [kind |-> "raised", code |-> 0, text |-> e]
ChildExited(o) == [kind |-> "exited", code |-> o.code, text |-> o.stderr]

NotLocated == [done |-> FALSE, env |-> PathOnlyEnv(FALSE), path |-> "None"]

InitProcs ==
    /\ pc = [p \in Procs |-> "idle"]
    /\ ffmpeg_bin = [p \in Procs |-> "None"]
    /\ sources = [p \in Procs |-> <<>>]
    /\ results = [p \in Procs |-> <<>>]
    /\ run_payload = [p \in Procs |-> NoPayload]
    /\ existing = [p \in Procs |-> NoDoc]
    /\ exitcode = [p \in Procs |-> -1]
    /\ raised = [p \in Procs |-> ""]
    /\ printed = [p \in Procs |-> ""]
    /\ calls = [p \in Procs |-> [f \in Files |-> 0]]
    /\ atStart = [p \in Procs |-> NoStart]
    /\ runLog = <<>>
    /\ started = 0
    /\ quietRuns = 0
    /\ located = NotLocated
    /\ child = [p \in Procs |-> NoChild]
    /\ began = [p \in Procs |-> 0]
    /\ lookups = [p \in Procs |-> 0]
    /\ raced = FALSE
    /\ snapOf = 0

Init ==
    /\ inputDir \in {"absent", "file", "dir"}
    /\ m4a \in (IF inputDir = "dir" THEN SUBSET Files ELSE {{}})
    /\ target \in (IF inputDir = "dir" THEN [Files -> {"absent", "orig"}]
                   ELSE {[f \in Files |-> "absent"]})
    /\ toolEnv \in {PathOnlyEnv(h) : h \in BOOLEAN}
    /\ history \in {AbsentFile} \cup ForeignHistories
    /\ snapshot = NoSnapshot
    /\ now = 1
    /\ InitProcs

\* -------------------------------------------------------------------- main
Idle(p) == pc[p] \in {"idle", "done"}

\* the process ends: main() returned `code`, or an exception left it
Exit(p, code, msg) ==
    /\ pc' = [pc EXCEPT ![p] = "done"]
    /\ exitcode' = [exitcode EXCEPT ![p] = code]
    /\ printed' = [printed EXCEPT ![p] = msg]

\* lines 152-159: a new invocation, up to the input directory check
Start(p) ==
    /\ Idle(p)
    /\ started < MaxRuns
    /\ started' = started + 1
    /\ ffmpeg_bin' = [ffmpeg_bin EXCEPT ![p] = "None"]
    /\ sources' = [sources EXCEPT ![p] = <<>>]
    /\ results' = [results EXCEPT ![p] = <<>>]
    /\ run_payload' = [run_payload EXCEPT ![p] = NoPayload]
    /\ existing' = [existing EXCEPT ![p] = NoDoc]
    /\ raised' = [raised EXCEPT ![p] = ""]
    /\ calls' = [calls EXCEPT ![p] = [f \in Files |-> 0]]
    /\ atStart' = [atStart EXCEPT ![p] =
                     [history |-> history, snapshot |-> snapshot]]
    /\ IF ~InputDirOk(inputDir)
       THEN Exit(p, 1, "Input directory does not exist")
       ELSE /\ pc' = [pc EXCEPT ![p] = "ensure"]
            /\ exitcode' = [exitcode EXCEPT ![p] = -1]
            /\ printed' = [printed EXCEPT ![p] = ""]
    /\ child' = [child EXCEPT ![p] = NoChild]
    /\ began' = [began EXCEPT ![p] = 0]
    /\ lookups' = [lookups EXCEPT ![p] = 0]
    /\ UNCHANGED <<envVars, runLog, quietRuns, located, raced, snapOf>>

\* lines 161-164
EnsureFfmpeg(p) ==
    /\ pc[p] = "ensure"
    /\ IF ensure_ffmpeg(toolEnv) # "None"
       THEN Exit(p, 1, ensure_ffmpeg(toolEnv))
       ELSE /\ pc' = [pc EXCEPT ![p] = "find"]
            /\ UNCHANGED <<exitcode, printed>>
    /\ lookups' = [lookups EXCEPT ![p] = @ + 1]
    /\ UNCHANGED <<envVars, ffmpeg_bin, sources, results, run_payload, existing,
                   raised, calls, atStart, ghostVars, located, child, began,
                   raced, snapOf>>

\* lines 165-171: the second lookup, then the discovery
FindFfmpeg(p) ==
    /\ pc[p] = "find"
    /\ ffmpeg_bin' = [ffmpeg_bin EXCEPT ![p] = find_ffmpeg(toolEnv)]
    /\ IF find_ffmpeg(toolEnv) = "None"
       THEN /\ Exit(p, 1, "ffmpeg lookup failed unexpectedly")
            /\ UNCHANGED sources
       ELSE /\ pc' = [pc EXCEPT ![p] = "loop"]
            /\ sources' = [sources EXCEPT ![p] = sorted(m4a)]
            /\ UNCHANGED <<exitcode, printed>>
    /\ lookups' = [lookups EXCEPT ![p] = @ + 1]
    /\ UNCHANGED <<envVars, results, run_payload, existing, raised, calls,
                   atStart, ghostVars, located, child, began, raced, snapOf>>

NextSourceRetry(p) ==
    sources[p][Cardinality({i \in 1..Len(results[p]) :
                              results[p][i].status # "failed"}) + 1]

\* the source the for loop of line 173 hands to convert_file next
NextSource(p) == sources[p][Len(results[p]) + 1]

\* lines 173-176 with convert_file lines 39-45: the target is there
ConvertSkip(p) ==
    /\ pc[p] = "loop"
    /\ ~LoopDone(sources[p], results[p])
    /\ LET src == NextSource(p)
           dst == with_suffix(src)
       IN  /\ TargetExists(target[dst])
           /\ results' = [results EXCEPT ![p] =
                 Append(@, ConversionResult(src, dst, "skipped", <<"target_exists">>))]
    /\ child' = [child EXCEPT ![p] = NoChild]
    /\ UNCHANGED <<envVars, pc, ffmpeg_bin, sources, run_payload, existing,
                   exitcode, raised, printed, calls, atStart, ghostVars, located,
                   began, lookups, raced, snapOf>>

\* convert_file lines 47-73: subprocess.run is called; the child starts, or
\* the call raises and the outcome is failed with the exception text
Invoke(p) ==
    /\ pc[p] = "loop"
    /\ ~LoopDone(sources[p], results[p])
    /\ LET src == NextSource(p)
           dst == with_suffix(src)
       IN  /\ ~TargetExists(target[dst])
           /\ calls' = [calls EXCEPT ![p][src] = @ + 1]
           /\ \/ /\ pc' = [pc EXCEPT ![p] = "running"]
                 /\ child' = [child EXCEPT ![p] = NoChild]
                 /\ UNCHANGED results
              \/ \E e \in StartErrors :
                    /\ results' = [results EXCEPT ![p] =
                          Append(@, ConversionResult(src, dst, "failed", e))]
                    /\ child' = [child EXCEPT ![p] = ChildRaised(e)]
                    /\ UNCHANGED pc
    /\ began' = [began EXCEPT ![p] = IF @ = 0 THEN now ELSE @]
    /\ UNCHANGED <<envVars, ffmpeg_bin, sources, run_payload, existing,
                   exitcode, raised, printed, atStart, ghostVars, located,
                   lookups, raced, snapOf>>

\* convert_file lines 61-66: the running child creates its output file and
\* fills it until it exits
ChildWrite(p) ==
    /\ pc[p] = "running"
    /\ child[p].kind = "none"
    /\ LET dst == with_suffix(NextSource(p))
       IN  target' = [target EXCEPT ![dst] =
                        IF @ = "absent" THEN "inflight" ELSE @]
    /\ child' = [child EXCEPT ![p] = ChildWriting]
    /\ UNCHANGED <<inputDir, m4a, toolEnv, history, snapshot, now, procVars,
                   ghostVars, located, began, lookups, raced, snapOf>>

\* convert_file lines 75-88 and line 176: the child exits
ToolExit(p) ==
    /\ pc[p] = "running"
    /\ \E o \in ExitOutcomes :
          LET src == NextSource(p)
              dst == with_suffix(src)
          IN  /\ child[p].kind = "writing" => o.code = 0 \/ o.wrote
              /\ target' = [target EXCEPT ![dst] = Written(@, o)]
              /\ results' = [results EXCEPT ![p] = Append(@, Classify(src, dst, o))]
              /\ child' = [child EXCEPT ![p] = ChildExited(o)]
    /\ now' = now + 1
    /\ pc' = [pc EXCEPT ![p] = "loop"]
    /\ UNCHANGED <<inputDir, m4a, toolEnv, history, snapshot, ffmpeg_bin, sources,
                   run_payload, existing, exitcode, raised, printed, calls,
                   atStart, ghostVars, located, began, lookups, raced, snapOf>>

\* lines 178-200 and write_json_report lines 102-112: the payload is built,
\* the history is read and the payload appended in memory
JsonLoad(p) ==
    /\ pc[p] = "loop"
    /\ LoopDone(sources[p], results[p])
    /\ LET payload == RunPayload(now, results[p])
           loaded == LoadHistory(history)
           merged == AppendRun(loaded.doc, payload)
           exc == IF loaded.exc # "" THEN loaded.exc ELSE merged.exc
       IN  /\ run_payload' = [run_payload EXCEPT ![p] = payload]
           /\ IF exc # ""
              THEN /\ raised' = [raised EXCEPT ![p] = exc]
                   /\ Exit(p, 1, "")
                   /\ UNCHANGED existing
              ELSE /\ existing' = [existing EXCEPT ![p] = merged.doc]
                   /\ pc' = [pc EXCEPT ![p] = "store"]
                   /\ UNCHANGED <<raised, exitcode, printed>>
    /\ now' = now + 1
    /\ raced' = (raced \/ \E q \in Procs \ {p} : pc[q] = "store")
    /\ UNCHANGED <<inputDir, m4a, target, toolEnv, history, snapshot, ffmpeg_bin,
                   sources, results, calls, atStart, ghostVars, located, child,
                   began, lookups, snapOf>>

JsonStoreSkipped(p) ==
    /\ pc[p] = "store"
    /\ pc' = [pc EXCEPT ![p] = "csv"]
    /\ UNCHANGED <<envVars, ffmpeg_bin, sources, results, run_payload, existing,
                   exitcode, raised, printed, calls, atStart, ghostVars, located,
                   probeVars>>

\* write_json_report line 113
JsonStore(p) ==
    /\ pc[p] = "store"
    /\ history' = json_dumps(existing[p])
    /\ runLog' = Append(runLog, run_payload[p])
    /\ pc' = [pc EXCEPT ![p] = "csv"]
    /\ UNCHANGED <<inputDir, m4a, target, toolEnv, snapshot, now, ffmpeg_bin,
                   sources, results, run_payload, existing, exitcode, raised,
                   printed, calls, atStart, started, quietRuns, located,
                   probeVars>>

\* lines 203-213: the snapshot, the summary and the return value
WriteCsv(p) ==
    /\ pc[p] = "csv"
    /\ snapshot' = write_csv_report(snapshot, results[p])
    /\ Exit(p, ExitStatus(run_payload[p].totals.failed), "summary")
    /\ quietRuns' = IF quietRuns < 2 THEN quietRuns + 1 ELSE quietRuns
    /\ UNCHANGED <<inputDir, m4a, target, toolEnv, history, now, ffmpeg_bin,
                   sources, results, run_payload, existing, raised, calls,
                   atStart, runLog, started, located, child, began, lookups,
                   raced>>
    /\ snapOf' = run_payload[p].timestamp_utc

\* ------------------------------------------------------------- environment
AllIdle == \A p \in Procs : Idle(p)

\* Between two finished runs the operator edits the tree once: a source is
\* deleted, or the broken output a failed conversion left behind is cleaned up.
EnvFiles ==
    /\ AllIdle
    /\ quietRuns > 0
    /\ started < MaxRuns
    /\ \E f \in Files :
          \/ /\ f \in m4a
             /\ m4a' = m4a \ {f}
             /\ UNCHANGED target
          \/ /\ target[f] = "partial"
             /\ target' = [target EXCEPT ![f] = "absent"]
             /\ UNCHANGED m4a
    /\ quietRuns' = 0
    /\ UNCHANGED <<inputDir, toolEnv, history, snapshot, now, procVars, runLog,
                   started, located, probeVars>>

\* the tool appears on, or disappears from, the search path: between runs, or
\* between the two lookups of one run
EnvPath ==
    /\ \A p \in Procs : Idle(p) \/ pc[p] = "find"
    /\ started < MaxRuns \/ \E p \in Procs : pc[p] = "find"
    /\ toolEnv' = [toolEnv EXCEPT !.which = ~@]
    /\ UNCHANGED <<inputDir, m4a, target, history, snapshot, now, procVars,
                   ghostVars, located, probeVars>>

Step(p) ==
    \/ Start(p)
    \/ EnsureFfmpeg(p)
    \/ FindFfmpeg(p)
    \/ ConvertSkip(p)
    \/ Invoke(p)
    \/ ToolExit(p)
    \/ JsonLoad(p)
    \/ JsonStore(p)
    \/ WriteCsv(p)

Next ==
    \/ \E p \in SeqProcs : Step(p)
    \/ EnvFiles
    \/ EnvPath

Spec == Init /\ [][Next]_vars

\* ------------------------------------------- two runs on one directory
\* Two invocations of the script, each started once, run at the same time
\* against the same input directory, history file and snapshot file.
StepConc(p) ==
    \/ pc[p] = "idle" /\ Start(p)
    \/ EnsureFfmpeg(p)
    \/ FindFfmpeg(p)
    \/ ConvertSkip(p)
    \/ Invoke(p)
    \/ ChildWrite(p)
    \/ ToolExit(p)
    \/ JsonLoad(p)
    \/ JsonStore(p)
    \/ WriteCsv(p)

InitConc ==
    /\ inputDir = "dir"
    /\ m4a = Files
    /\ target \in [Files -> {"absent", "orig"}]
    /\ toolEnv = PathOnlyEnv(TRUE)
    /\ history = AbsentFile
    /\ snapshot = NoSnapshot
    /\ now = 1
    /\ InitProcs

NextConc == \E p \in Procs : StepConc(p)

SpecConc == InitConc /\ [][NextConc]_vars

\* --------------------------------------------- a run that is cut short
\* The process is killed from outside (signal, power loss) while main() is in
\* write_json_report before its write_text, or between lines 202 and 203;
\* nothing after the point it had reached is executed and main() returns no
\* status.
Crash(p) ==
    /\ pc[p] \in {"store", "csv"}
    /\ Exit(p, -1, "")
    /\ UNCHANGED <<envVars, ffmpeg_bin, sources, results, run_payload, existing,
                   raised, calls, atStart, ghostVars, located, probeVars>>

InitCrash ==
    /\ inputDir = "dir"
    /\ m4a \in SUBSET Files
    /\ target \in [Files -> {"absent", "orig"}]
    /\ toolEnv = PathOnlyEnv(TRUE)
    /\ history \in {AbsentFile} \cup ForeignHistories
    /\ snapshot = NoSnapshot
    /\ now = 1
    /\ InitProcs

NextCrash == \E p \in SeqProcs : Step(p) \/ Crash(p)

SpecCrash == InitCrash /\ [][NextCrash]_vars

\* ------------------------------------------------- the locator on its own
\* find_ffmpeg() called under every environment, the environment changing
\* between the calls
Locate ==
    /\ located' = [done |-> TRUE, env |-> toolEnv, path |-> find_ffmpeg(toolEnv)]
    /\ UNCHANGED <<envVars, procVars, ghostVars, probeVars>>

SetOverride ==
    /\ \E k \in OverrideKinds \ {toolEnv.override} :
          toolEnv' = [toolEnv EXCEPT !.override = k]
    /\ UNCHANGED <<inputDir, m4a, target, history, snapshot, now, procVars,
                   ghostVars, located, probeVars>>

SetFallback ==
    /\ \E i \in 1..Len(Fallbacks) :
          toolEnv' = [toolEnv EXCEPT !.fallback[i] = ~@]
    /\ UNCHANGED <<inputDir, m4a, target, history, snapshot, now, procVars,
                   ghostVars, located, probeVars>>

SetWhich ==
    /\ toolEnv' = [toolEnv EXCEPT !.which = ~@]
    /\ UNCHANGED <<inputDir, m4a, target, history, snapshot, now, procVars,
                   ghostVars, located, probeVars>>

InitLocator ==
    /\ inputDir = "dir"
    /\ m4a = {}
    /\ target = [f \in Files |-> "absent"]
    /\ toolEnv \in ToolEnvs
    /\ history = AbsentFile
    /\ snapshot = NoSnapshot
    /\ now = 1
    /\ InitProcs

NextLocator == Locate \/ SetOverride \/ SetFallback \/ SetWhich

SpecLocator == InitLocator /\ [][NextLocator]_vars

\* ------------------------------------------------------------------ claims
PreconditionMessages ==
    {"Input directory does not exist", "ffmpeg not found",
     "ffmpeg lookup failed unexpectedly"}

\* main() returned from one of the precondition checks (lines 157-168)
Halted(p) == pc[p] = "done" /\ printed[p] \in PreconditionMessages

\* main() reached its last line
Completed(p) == pc[p] = "done" /\ printed[p] = "summary"

\* the run is past the for loop: its payload has been built
Aggregated(p) == pc[p] \in {"store", "csv"} \/ (pc[p] = "done" /\ ~Halted(p))

PartitionOK(t) == t.found_m4a = t.converted + t.skipped + t.failed

HistoryRuns == IF history.kind = "json" THEN history.doc.runs ELSE <<>>

\* C1: in every run that passed the preconditions the totals of the RunRecord
\* satisfy found_m4a = converted + skipped + failed, found_m4a is the number
\* of discovered sources, and the same holds of every record in the history.
C1_TotalsPartition ==
    /\ \A p \in Procs :
          Aggregated(p) =>
             /\ PartitionOK(run_payload[p].totals)
             /\ run_payload[p].totals.found_m4a = Len(sources[p])
    /\ \A i \in 1..Len(HistoryRuns) : PartitionOK(HistoryRuns[i].totals)

C1_Witness ==
    \E p \in Procs :
       /\ Completed(p)
       /\ run_payload[p].totals.found_m4a = 2
       /\ run_payload[p].totals.skipped = 1
       /\ run_payload[p].totals.failed = 1

\* the last two records of the history, when two runs finished with no edit
\* of the tree between the start of the first and the end of the second
QuietPair == AllIdle /\ quietRuns = 2 /\ Len(HistoryRuns) >= 2
FirstRun == HistoryRuns[Len(HistoryRuns) - 1]
SecondRun == HistoryRuns[Len(HistoryRuns)]

KeptBySecondRun ==
    \A i \in 1..Len(FirstRun.results) : \A j \in 1..Len(SecondRun.results) :
       /\ FirstRun.results[i].source = SecondRun.results[j].source
       /\ FirstRun.results[i].status \in {"converted", "skipped"}
       => SecondRun.results[j].status = "skipped"

\* C2 as stated: the second of two runs with no file-system change between
\* them reports skipped for every file the first run converted or skipped,
\* and has no converted entry at all.
C2_Idempotent ==
    QuietPair => KeptBySecondRun /\ SecondRun.totals.converted = 0

\* C2 amended: the second run reports skipped for every file the first run
\* converted or skipped, and each of its converted entries is a file the
\* first run reported as failed.
C2_IdempotentAmended ==
    QuietPair =>
       /\ KeptBySecondRun
       /\ \A j \in 1..Len(SecondRun.results) :
             SecondRun.results[j].status = "converted" =>
                \E i \in 1..Len(FirstRun.results) :
                   /\ FirstRun.results[i].source = SecondRun.results[j].source
                   /\ FirstRun.results[i].status = "failed"

C2_Witness ==
    /\ QuietPair
    /\ \E i \in 1..Len(FirstRun.results) : \E j \in 1..Len(SecondRun.results) :
          /\ FirstRun.results[i].source = SecondRun.results[j].source
          /\ FirstRun.results[i].status = "converted"
          /\ SecondRun.results[j].status = "skipped"
    /\ \E i \in 1..Len(FirstRun.results) : FirstRun.results[i].status = "skipped"

\* C3: after N runs wrote the history it holds exactly the N RunRecords those
\* runs computed, in the order of the runs and with increasing timestamps;
\* the records of the earlier runs are the ones those runs wrote.
C3_AppendOnly ==
    /\ runLog # <<>> => history.kind = "json" /\ history.doc.runs = runLog
    /\ \A i \in 1..Len(HistoryRuns) : \A j \in 1..Len(HistoryRuns) :
          i < j => HistoryRuns[i].timestamp_utc < HistoryRuns[j].timestamp_utc

C3_Witness ==
    /\ Len(runLog) = 2
    /\ HistoryRuns = runLog
    /\ runLog[1].totals # runLog[2].totals

\* C4: after every completed run the snapshot holds the header and exactly
\* that run's outcomes, as many rows as the run found sources, the rows of the
\* run's record in the history, and no row of an earlier run.
C4_SnapshotLatest ==
    \A p \in SeqProcs :
       Completed(p) =>
          /\ snapshot.exists
          /\ snapshot.header = CsvHeader
          /\ Len(snapshot.rows) = run_payload[p].totals.found_m4a
          /\ snapshot.rows = results[p]
          /\ Len(HistoryRuns) > 0
          /\ snapshot.rows = HistoryRuns[Len(HistoryRuns)].results

C4_Witness ==
    \E p \in SeqProcs :
       /\ Completed(p)
       /\ Len(runLog) = 2
       /\ runLog[1].totals.found_m4a = 2
       /\ Len(snapshot.rows) = 1

\* C5 as stated: the exit status is 1 exactly when a precondition failed, 0
\* exactly when the run completed with no failed outcome, 2 exactly when it
\* completed with at least one.
C5_ExitStatus ==
    \A p \in Procs :
       pc[p] = "done" =>
          /\ exitcode[p] = 1 <=> Halted(p)
          /\ exitcode[p] = 0 <=>
                Completed(p) /\ run_payload[p].totals.failed = 0
          /\ exitcode[p] = 2 <=>
                Completed(p) /\ run_payload[p].totals.failed > 0

\* C6: a run whose input root is not a directory, or whose tool lookup fails,
\* ends with status 1 having invoked the tool for no file, built no record,
\* and left the history and the snapshot as it found them; a run that goes
\* further has a directory and a resolved tool.
C6_PreconditionAbort ==
    \A p \in Procs :
       /\ Halted(p) =>
             /\ exitcode[p] = 1
             /\ \A f \in Files : calls[p][f] = 0
             /\ results[p] = <<>>
             /\ run_payload[p] = NoPayload
             /\ history = atStart[p].history
             /\ snapshot = atStart[p].snapshot
       /\ pc[p] = "done" /\ inputDir # "dir" => Halted(p)
       /\ pc[p] \in {"loop", "running", "store", "csv"} =>
             inputDir = "dir" /\ ffmpeg_bin[p] # "None"

C6_Witness ==
    \E p \in Procs :
       /\ Halted(p)
       /\ printed[p] = "ffmpeg lookup failed unexpectedly"
       /\ history.kind = "json"
       /\ snapshot.exists

\* C7: a step of the loop that finds the target of its source present appends
\* skipped / target_exists for it, calls the tool for nothing and leaves every
\* target as it is.
C7_SkipExisting ==
    [][\A p \in Procs :
          /\ pc[p] = "loop"
          /\ Len(results[p]) < Len(sources[p])
          /\ target[sources[p][Len(results[p]) + 1]] # "absent"
          /\ <<pc[p], results[p], calls[p]>>' # <<pc[p], results[p], calls[p]>>
          => /\ results'[p] = Append(results[p],
                   [source |-> sources[p][Len(results[p]) + 1],
                    target |-> sources[p][Len(results[p]) + 1],
                    status |-> "skipped", error |-> <<"target_exists">>])
             /\ calls' = calls
             /\ target' = target
             /\ pc'[p] = "loop"]_vars

C7_Witness ==
    \E p \in Procs : \E i \in 1..Len(results[p]) :
       /\ results[p][i].status = "skipped"
       /\ target[results[p][i].target] = "orig"
       /\ calls[p][results[p][i].source] = 0

\* C8: a run that passed the preconditions leaves the loop with exactly one
\* outcome for every discovered source, in discovery order, whatever the
\* outcomes of the sources before it.
C8_FailureIsolation ==
    \A p \in Procs :
       Aggregated(p) =>
          /\ Len(results[p]) = Len(sources[p])
          /\ \A i \in 1..Len(sources[p]) :
                /\ results[p][i].source = sources[p][i]
                /\ results[p][i].status \in {"converted", "skipped", "failed"}
          /\ \A i \in 1..Len(sources[p]) : \A j \in 1..Len(sources[p]) :
                sources[p][i] = sources[p][j] => i = j

C8_Witness ==
    \E p \in Procs :
       /\ Completed(p)
       /\ Len(results[p]) = 2
       /\ results[p][1].status = "failed"
       /\ results[p][2].status = "converted"
       /\ calls[p][results[p][2].source] = 1

\* C9 as stated: the lookup returns the override exactly when it is set and
\* points to an existing file; otherwise the search-path match if there is
\* one; otherwise the first existing fallback; otherwise nothing.
C9_Precedence ==
    located.done =>
       LET e == located.env
       IN  /\ located.path = "FFMPEG_BINARY" <=> e.override = "file"
           /\ e.override # "file" /\ e.which => located.path = "which:ffmpeg"
           /\ e.override # "file" /\ ~e.which =>
                 located.path = FirstFallback(e)

\* a history file that is there and is not a mapping with a "runs" sequence
Unusable(file) == file \in ForeignHistories

\* C10 as stated: a run that finds an unreadable or invalid history does not
\* fail on it and leaves a history whose runs are exactly its own record.
C10_Recovery ==
    \A p \in Procs :
       Aggregated(p) /\ Unusable(atStart[p].history) =>
          /\ raised[p] = ""
          /\ pc[p] \in {"csv", "done"} =>
                /\ history.kind = "json"
                /\ history.doc.type = "object"
                /\ history.doc.runs = <<run_payload[p]>>

\* the text between the first and the last token that is not whitespace
TrimmedText(s) ==
    LET solid == {i \in 1..Len(s) : s[i] # "ws"}
    IN  IF solid = {} THEN <<>>
        ELSE SubSeq(s, CHOOSE i \in solid : \A j \in solid : i <= j,
                       CHOOSE i \in solid : \A j \in solid : j <= i)

LastResult(p) == results[p][Len(results[p])]

\* C11: with the target absent, a child that cannot be started gives failed
\* with the exception text, exit code 0 gives converted with an empty error,
\* a non-zero exit code gives failed with the trimmed stderr, or the message
\* naming the exit code when the trimmed stderr is empty; every status is one
\* of the three and a converted outcome has an empty error.
C11_Classification ==
    \A p \in Procs :
       /\ child[p].kind \in {"raised", "exited"} => results[p] # <<>>
       /\ child[p].kind = "raised" =>
             /\ LastResult(p).status = "failed"
             /\ LastResult(p).error = child[p].text
       /\ child[p].kind = "exited" /\ child[p].code = 0 =>
             /\ LastResult(p).status = "converted"
             /\ LastResult(p).error = <<>>
       /\ child[p].kind = "exited" /\ child[p].code # 0 =>
             /\ LastResult(p).status = "failed"
             /\ LastResult(p).error =
                   IF TrimmedText(child[p].text) # <<>>
                   THEN TrimmedText(child[p].text)
                   ELSE <<"ffmpeg exited with code", ToString(child[p].code)>>
       /\ \A i \in 1..Len(results[p]) :
             /\ results[p][i].status \in {"converted", "skipped", "failed"}
             /\ results[p][i].status = "converted" => results[p][i].error = <<>>

C11_Witness ==
    \E p \in Procs :
       /\ Len(results[p]) = 2
       /\ results[p][1].error = <<"unsupported", "ws", "codec">>
       /\ child[p].kind = "exited"
       /\ child[p].text = <<"ws">>
       /\ results[p][2].error = <<"ffmpeg exited with code", "1">>

\* C12: the timestamp of a run's record is the run's start time: it is not
\* later than the moment the first conversion of the run begins.
C12_TimestampAtStart ==
    \A p \in Procs :
       Aggregated(p) /\ began[p] # 0 =>
          run_payload[p].timestamp_utc <= began[p]

\* C13: the tool is resolved exactly once per run, and that one lookup decides
\* both whether the run proceeds and the path handed to every conversion: a
\* run that passed the check never stops for a missing tool.
C13_ResolvedOnce ==
    \A p \in Procs :
       /\ lookups[p] <= 1
       /\ printed[p] # "ffmpeg lookup failed unexpectedly"

SourcesOf(rows) == [i \in 1..Len(rows) |-> rows[i].source]

Ascending(seq) == \A i, j \in 1..Len(seq) : i < j => seq[i] < seq[j]

\* C14: the discovered files are processed in ascending order of their paths,
\* the results of the run, its record and its snapshot list the outcomes in
\* that order, and two runs over the same set of files process them in the
\* same sequence.
C14_Order ==
    /\ \A p \in Procs :
          /\ Ascending(sources[p])
          /\ Len(results[p]) <= Len(sources[p])
          /\ \A i \in 1..Len(results[p]) : results[p][i].source = sources[p][i]
          /\ Aggregated(p) => SourcesOf(run_payload[p].results) = sources[p]
    /\ \A p \in SeqProcs :
          Completed(p) =>
             /\ SourcesOf(snapshot.rows) = sources[p]
             /\ SourcesOf(HistoryRuns[Len(HistoryRuns)].results) = sources[p]
    /\ \A i, j \in 1..Len(runLog) :
          {runLog[i].results[k].source : k \in 1..Len(runLog[i].results)}
             = {runLog[j].results[k].source : k \in 1..Len(runLog[j].results)}
          => SourcesOf(runLog[i].results) = SourcesOf(runLog[j].results)

C14_Witness ==
    \E p \in SeqProcs :
       /\ Completed(p)
       /\ Len(runLog) = 2
       /\ SourcesOf(runLog[1].results) = <<1, 2>>
       /\ SourcesOf(runLog[2].results) = <<1, 2>>
       /\ SourcesOf(snapshot.rows) = <<1, 2>>
       /\ runLog[1].results[1].status # runLog[2].results[1].status

\* C15: within one run the tool is invoked at most once per discovered source
\* file, each source has at most one outcome, and a source whose invocation
\* failed is not invoked again in that run.
C15_NoRetry ==
    \A p \in Procs :
       /\ \A f \in Files : calls[p][f] <= 1
       /\ \A i, j \in 1..Len(results[p]) :
             results[p][i].source = results[p][j].source => i = j
       /\ \A i \in 1..Len(results[p]) :
             results[p][i].status = "failed" =>
                /\ calls[p][results[p][i].source] = 1
                /\ pc[p] = "running" =>
                      sources[p][Len(results[p]) + 1] # results[p][i].source

C15_Witness ==
    \E p \in Procs :
       /\ Completed(p)
       /\ Len(results[p]) = 2
       /\ results[p][1].status = "failed"
       /\ results[p][2].status = "converted"
       /\ calls[p] = [f \in Files |-> 1]
       /\ target[results[p][1].target] = "absent"

\* C16 as stated: every run that passes the preconditions ends with exactly
\* one record of its own in the history and with the snapshot of its results,
\* with exit status 0 or 2, whatever the outcomes and also with zero files.
C16_OneRecordOneSnapshot ==
    \A p \in SeqProcs :
       pc[p] = "done" /\ ~Halted(p) =>
          /\ exitcode[p] \in {0, 2}
          /\ Cardinality({i \in 1..Len(HistoryRuns) :
                            HistoryRuns[i] = run_payload[p]}) = 1
          /\ snapshot.exists
          /\ snapshot.header = CsvHeader
          /\ SourcesOf(snapshot.rows) = sources[p]
          /\ Len(sources[p]) = 0 => exitcode[p] = 0

\* C20 as stated: every source recorded as skipped has a target that existed
\* before the first run or was written by a conversion that exited 0, and a
\* source recorded as failed in one run is not recorded as skipped in the next.
C20_SkippedImpliesSuccess ==
    /\ \A p \in SeqProcs : \A i \in 1..Len(results[p]) :
          results[p][i].status = "skipped" /\ ~Idle(p) =>
             target[results[p][i].target] \in {"orig", "mp3"}
    /\ \A k \in 1..(Len(runLog) - 1) :
          \A i \in 1..Len(runLog[k].results) :
             \A j \in 1..Len(runLog[k + 1].results) :
                /\ runLog[k].results[i].status = "failed"
                /\ runLog[k + 1].results[j].source = runLog[k].results[i].source
                => runLog[k + 1].results[j].status # "skipped"

\* the run q has a child process at work on the target of f
InFlight(q, f) ==
    /\ pc[q] = "running"
    /\ child[q].kind = "writing"
    /\ with_suffix(sources[q][Len(results[q]) + 1]) = f

\* C17: with two runs interleaved on one directory, a run records skipped only
\* for a target that is there when it looks, and a target that is there
\* without being complete is the output of the other run's conversion still
\* in flight.
C17_SkipCheckRace ==
    [][\A p \in Procs :
          /\ Len(results'[p]) = Len(results[p]) + 1
          /\ results'[p][Len(results'[p])].status = "skipped"
          => LET f == results'[p][Len(results'[p])].target
             IN  /\ target[f] # "absent"
                 /\ target[f] \notin {"orig", "mp3", "partial"} =>
                       \E q \in Procs \ {p} : InFlight(q, f)]_vars

\* one run has recorded skipped / target_exists for a source that the other
\* run is still converting, no conversion of it having completed
C17_Witness ==
    \E p \in Procs : \E q \in Procs \ {p} :
       /\ results[p] # <<>>
       /\ LastResult(p).status = "skipped"
       /\ LastResult(p).error = <<"target_exists">>
       /\ InFlight(q, LastResult(p).target)
       /\ target[LastResult(p).target] = "inflight"
       /\ calls[p][LastResult(p).source] = 0
       /\ runLog = <<>>

\* C18: as long as no run reads the history between another run's read and
\* its write-back, the history holds every record written, in order; the store
\* itself is a plain overwrite with the writer's merged document.
C18_LoadMergeStore ==
    /\ ~raced => HistoryRuns = runLog
    /\ \A i \in 1..Len(HistoryRuns) :
          \E j \in 1..Len(runLog) : HistoryRuns[i] = runLog[j]
    /\ runLog # <<>> =>
          /\ HistoryRuns # <<>>
          /\ HistoryRuns[Len(HistoryRuns)] = runLog[Len(runLog)]

\* lost update: two runs have written back, the history holds one record
C18_Witness ==
    /\ AllIdle
    /\ raced
    /\ Len(runLog) = 2
    /\ Len(HistoryRuns) = 1
    /\ \E p \in Procs : \E q \in Procs \ {p} :
          /\ Completed(p) /\ Completed(q)
          /\ HistoryRuns = <<run_payload[p]>>
          /\ run_payload[q] # run_payload[p]

\* C19: the history append of a run completes before its snapshot overwrite
\* begins: in every state, also after a crash between the two writes, the run
\* whose outcomes the snapshot holds has its record in the history.
C19_HistoryBeforeSnapshot ==
    /\ snapOf # 0 =>
          \E i \in 1..Len(HistoryRuns) :
             /\ HistoryRuns[i].timestamp_utc = snapOf
             /\ HistoryRuns[i].results = snapshot.rows
    /\ snapOf = 0 => ~snapshot.exists
    /\ \A p \in SeqProcs :
          pc[p] = "csv" =>
             /\ HistoryRuns # <<>>
             /\ HistoryRuns[Len(HistoryRuns)] = run_payload[p]

\* the converse state: the second run was killed between the two writes, the
\* history holds its record and the snapshot still holds the first run's rows
C19_Witness ==
    \E p \in SeqProcs :
       /\ pc[p] = "done"
       /\ exitcode[p] = -1
       /\ Len(HistoryRuns) = 2
       /\ HistoryRuns[2] = run_payload[p]
       /\ snapOf = HistoryRuns[1].timestamp_utc
       /\ snapshot.rows = HistoryRuns[1].results
       /\ snapshot.rows # HistoryRuns[2].results

====
